---- MODULE Spec2Model ----
(***************************************************************************)
(* Model of aws_config_rule_handler, the AWS Config rule                   *)
(* "ds-IsInstanceProtectedBy" (rules/ds-IsInstanceProtectedBy/             *)
(* dsIsInstanceProtectedBy.py).                                            *)
(*                                                                         *)
(* One invocation of the handler is one behaviour.  pc is the handler's    *)
(* position; every action is one stretch of the function between two       *)
(* points where it can return, raise or call a collaborator.  The          *)
(* collaborators (Credentials, Manager, mgr.computers, the boto3 config    *)
(* client) are the environment: each call either returns or raises, and    *)
(* what it returns is drawn from a small set.                              *)
(*                                                                         *)
(* Python strings on which the code works character by character           *)
(* (.lower(), .strip(), ==, in) are sequences of one-character strings.    *)
(* None is the one-element sequence <<"None">>, which is no Python string. *)
(***************************************************************************)
EXTENDS Integers, Sequences, FiniteSets, TLC

VARIABLES
    pc,            \* position in aws_config_rule_handler
    event,         \* the event argument (the handler rewrites two of its values)
    instance_id,   \* line 28
    is_protected,  \* line 29
    detailed_msg,  \* line 30
    mgr,           \* line 77
    result,        \* lines 120-123, 150-154: the mapping returned
    outcome,       \* "running", "returned" or "raised"
    raised,        \* the call whose exception left the handler, or ""
    calls,         \* the calls made to the collaborators so far, in order, and how each ended
    evaluations,   \* the Evaluations argument of each put_evaluations call
    tokens,        \* the ResultToken argument of each put_evaluations call
    scanned,       \* records the loop of line 98 has gone through
    matched,       \* of these, the records whose instance id matched
    control_status \* line 101

vars == <<pc, event, instance_id, is_protected, detailed_msg, mgr, result,
          outcome, raised, calls, evaluations, tokens, scanned, matched,
          control_status>>

(***************************************************************************)
(* Bounds                                                                  *)
(***************************************************************************)
\* most records mgr.computers.items() yields in one invocation
MaxHosts == 2

(***************************************************************************)
(* Python strings                                                          *)
(***************************************************************************)
None == <<"None">>

UpperCase == <<"A","B","C","D","E","F","G","H","I","J","K","L","M",
               "N","O","P","Q","R","S","T","U","V","W","X","Y","Z">>
LowerCase == <<"a","b","c","d","e","f","g","h","i","j","k","l","m",
               "n","o","p","q","r","s","t","u","v","w","x","y","z">>

\* str.lower() on one character
LowerChar(c) ==
    IF \E i \in 1..Len(UpperCase) : UpperCase[i] = c
    THEN LowerCase[CHOOSE i \in 1..Len(UpperCase) : UpperCase[i] = c]
    ELSE c

\* str.lower()
RECURSIVE Lower(_)
Lower(s) == IF s = <<>> THEN <<>> ELSE <<LowerChar(Head(s))>> \o Lower(Tail(s))

\* str.strip(): leading and trailing whitespace removed
Strip(s) ==
    LET keep == {i \in 1..Len(s) : s[i] # " "}
        lo == CHOOSE i \in keep : \A j \in keep : i <= j
        hi == CHOOSE i \in keep : \A j \in keep : j <= i
    IN IF keep = {} THEN <<>> ELSE SubSeq(s, lo, hi)

\* needle in hay (substring)
Contains(needle, hay) ==
    \E i \in 0..(Len(hay) - Len(needle)) : SubSeq(hay, i + 1, i + Len(needle)) = needle

\* truth value of a string or None
Truthy(s) == s # None /\ s # <<>>

\* a mapping restricted to some of its keys (the others are absent)
Restrict(f, S) == [k \in S |-> f[k]]

EmptyMap == Restrict(<<>>, {})

(***************************************************************************)
(* String literals of the source                                           *)
(***************************************************************************)
\* line 63: "AWS::EC2::Instance"
EC2_INSTANCE == <<"A","W","S",":",":","E","C","2",":",":","I","n","s","t","a","n","c","e">>

anti_malware == <<"a","n","t","i","_","m","a","l","w","a","r","e">>
web_reputation == <<"w","e","b","_","r","e","p","u","t","a","t","i","o","n">>
firewall == <<"f","i","r","e","w","a","l","l">>
intrusion_prevention == <<"i","n","t","r","u","s","i","o","n","_","p","r","e","v","e","n","t","i","o","n">>
integrity_monitoring == <<"i","n","t","e","g","r","i","t","y","_","m","o","n","i","t","o","r","i","n","g">>
log_inspection == <<"l","o","g","_","i","n","s","p","e","c","t","i","o","n">>

\* line 57: the list dsControl.lower() must be in
CONTROLS == {anti_malware, web_reputation, firewall, intrusion_prevention,
             integrity_monitoring, log_inspection}

\* lines 86-93
control_names(key) ==
    CASE key = anti_malware -> <<"A","n","t","i","-","M","a","l","w","a","r","e">>
      [] key = web_reputation -> <<"W","e","b"," ","R","e","p","u","t","a","t","i","o","n">>
      [] key = firewall -> <<"F","i","r","e","w","a","l","l">>
      [] key = intrusion_prevention -> <<"I","n","t","r","u","s","i","o","n"," ","P","r","e","v","e","n","t","i","o","n">>
      [] key = integrity_monitoring -> <<"I","n","t","e","g","r","i","t","y"," ","M","o","n","i","t","o","r","i","n","g">>
      [] key = log_inspection -> <<"L","o","g"," ","I","n","s","p","e","c","t","i","o","n">>

\* line 102: "{} status: {}".format(name, status)
StatusMessage(name, status) == name \o <<" ","s","t","a","t","u","s",":"," ">> \o status

\* line 105: "On, Real Time"
ON_REAL_TIME == <<"O","n",","," ","R","e","a","l"," ","T","i","m","e">>
\* line 105: " On, Security Update In Progress, Real Time"
ON_UPDATE_REAL_TIME == <<" ","O","n",","," ","S","e","c","u","r","i","t","y"," ","U","p","d","a","t","e"," ","I","n"," ","P","r","o","g","r","e","s","s",","," ","R","e","a","l"," ","T","i","m","e">>
\* line 109: "On, Prevent"
ON_PREVENT == <<"O","n",","," ","P","r","e","v","e","n","t">>
\* line 113: "On"
ON == <<"O","n">>

(***************************************************************************)
(* The inputs: events, and what the collaborators answer                   *)
(***************************************************************************)
TopKeys == {"invokingEvent", "ruleParameters", "resultToken", "eventLeftScope"}
ParamKeys == {"dsUsernameKey", "dsPasswordKey", "dsTenant", "dsHostname",
              "dsControl", "dsIgnoreSslValidation"}
ItemKeys == {"resourceType", "resourceId"}

FIREWALL_MIXED_CASE == <<"F","i","r","e","W","a","l","l">>
UNKNOWN_CONTROL == <<"b","o","g","u","s">>

\* values of dsControl: the six controls, one in mixed case, one unknown
ControlValues == CONTROLS \cup {FIREWALL_MIXED_CASE, UNKNOWN_CONTROL}

EC2_INSTANCE_LOWER_CASE == <<"a","w","s",":",":","e","c","2",":",":","i","n","s","t","a","n","c","e">>
S3_BUCKET == <<"A","W","S",":",":","S","3",":",":","B","u","c","k","e","t">>

\* values of resourceType
ResourceTypes == {EC2_INSTANCE, EC2_INSTANCE_LOWER_CASE, S3_BUCKET}

\* values of resourceId
ResourceIds == {<<>>, <<"i","-","0","a">>, <<"I","-","0","A"," ">>}

RuleParameterMaps ==
    {Restrict(full, S) :
        full \in [dsUsernameKey : {"user_key"}, dsPasswordKey : {"password_key"},
                  dsTenant : {"tenant"}, dsHostname : {"hostname"},
                  dsControl : ControlValues,
                  dsIgnoreSslValidation : {"true", "maybe"}],
        S \in SUBSET ParamKeys}

ConfigurationItems ==
    {Restrict(full, S) :
        full \in [resourceType : ResourceTypes, resourceId : ResourceIds],
        S \in SUBSET ItemKeys}

InvokingEventMaps ==
    {EmptyMap} \cup {[configurationItem |-> ci] : ci \in ConfigurationItems}

\* A value of ruleParameters or invokingEvent is a mapping ("dict"), the JSON
\* text of a mapping ("json"), or text json.loads() rejects ("bad").
Encodings(maps) ==
    {[form |-> f, val |-> m] : f \in {"dict", "json"}, m \in maps}
        \cup {[form |-> "bad", val |-> EmptyMap]}

Events ==
    {Restrict(full, S) :
        full \in [invokingEvent : Encodings(InvokingEventMaps),
                  ruleParameters : Encodings(RuleParameterMaps),
                  resultToken : {"token-1", "token-2"},
                  eventLeftScope : {FALSE}],
        S \in SUBSET TopKeys}

STATUS_OFF == <<"O","f","f">>
STATUS_REAL_TIME_LOWER_CASE == <<"o","n",","," ","r","e","a","l"," ","t","i","m","e">>
STATUS_DETECT == <<"O","n",","," ","D","e","t","e","c","t">>
\* "On, Security Update In Progress, Real Time", with no space before it
STATUS_UPDATE_NO_SPACE == Tail(ON_UPDATE_REAL_TIME)

\* values of a record's overall_<control>_status: None stands for a record
\* on which the attribute lookup raises
StatusValues ==
    {ON, STATUS_OFF, STATUS_REAL_TIME_LOWER_CASE, ON_PREVENT, STATUS_DETECT,
     ON_UPDATE_REAL_TIME, STATUS_UPDATE_NO_SPACE, None}

\* values of a record's cloud_object_instance_id
CloudInstanceIds == {None, <<" ","i","-","0","A">>, <<"i","-","0","b">>}

\* the records of mgr.computers
Hosts == [cloud_object_instance_id : CloudInstanceIds, status : StatusValues]

\* what put_evaluations returns
Responses == {"response-1", "response-2"}

(***************************************************************************)
(* The handler                                                             *)
(***************************************************************************)
Init ==
    /\ pc = "validate"
    /\ event \in Events
    /\ instance_id = None
    /\ is_protected = FALSE
    /\ detailed_msg = <<>>
    /\ mgr = "None"
    /\ result = EmptyMap
    /\ outcome = "running"
    /\ raised = ""
    /\ calls = <<>>
    /\ evaluations = <<>>
    /\ tokens = <<>>
    /\ scanned = 0
    /\ matched = 0
    /\ control_status = None

\* return r
Return(r) == pc' = "done" /\ outcome' = "returned" /\ result' = r /\ raised' = raised

\* an exception raised at `site` leaves the handler
Raise(site) == pc' = "done" /\ outcome' = "raised" /\ raised' = site /\ result' = result

\* the handler goes on at `next`
Goto(next) == pc' = next /\ UNCHANGED <<outcome, raised, result>>

\* a call that returned `value`
Returned(name, value) == [call |-> name, ended |-> "returns", value |-> value]

\* a call that raised
Raised(name) == [call |-> name, ended |-> "raises", value |-> "None"]

\* MissingRequiredKey with the test of line 36 left out
MissingRequiredKeyButScope(e) ==
    \/ "invokingEvent" \notin DOMAIN e
    \/ "ruleParameters" \notin DOMAIN e
    \/ "resultToken" \notin DOMAIN e

\* lines 33-36
MissingRequiredKey(e) ==
    \/ "invokingEvent" \notin DOMAIN e
    \/ "ruleParameters" \notin DOMAIN e
    \/ "resultToken" \notin DOMAIN e
    \/ "eventLeftScope" \notin DOMAIN e

\* lines 33-38
Validate ==
    /\ pc = "validate"
    /\ IF MissingRequiredKey(event)
       THEN Return("result" :> "error")
       ELSE Goto("parse")
    /\ UNCHANGED <<event, instance_id, is_protected, detailed_msg, mgr, calls,
                   evaluations, tokens, scanned, matched, control_status>>

\* lines 41-42: the value after the line, when json.loads() did not raise
Parsed(v) == [form |-> "dict", val |-> v.val]

\* lines 41-42: json.loads() runs on a value that is no dict, and raises
\* on text that is no JSON
ParseJson ==
    /\ pc = "parse"
    /\ IF event["ruleParameters"].form = "bad"
       THEN /\ Raise("json.loads")
            /\ event' = event
       ELSE IF event["invokingEvent"].form = "bad"
       THEN /\ Raise("json.loads")
            /\ event' = [event EXCEPT !["ruleParameters"] = Parsed(@)]
       ELSE /\ Goto("credentials")
            /\ event' = [event EXCEPT !["ruleParameters"] = Parsed(@),
                                      !["invokingEvent"] = Parsed(@)]
    /\ UNCHANGED <<instance_id, is_protected, detailed_msg, mgr, calls,
                   evaluations, tokens, scanned, matched, control_status>>

\* event['ruleParameters'], once a dict
ruleParameters == event["ruleParameters"].val

\* lines 46-48
LacksRequiredParameters(rp) ==
    /\ "dsUsernameKey" \notin DOMAIN rp
    /\ "dsPasswordKey" \notin DOMAIN rp
    /\ ("dsTenant" \notin DOMAIN rp \/ "dsHostname" \notin DOMAIN rp)

\* lines 45-54
CheckCredentials ==
    /\ pc = "credentials"
    /\ IF LacksRequiredParameters(ruleParameters)
       THEN /\ Return("requirements_not_met" :> "dsUsernameKey, dsPasswordKey, dsTenant or dsHostname")
            /\ calls' = calls
       ELSE IF ~ ({"dsUsernameKey", "dsPasswordKey"} \subseteq DOMAIN ruleParameters)
       THEN /\ Raise("KeyError")
            /\ calls' = calls
       ELSE \E o \in {"returns", "raises"} :
            IF o = "raises"
            THEN Raise("Credentials") /\ calls' = Append(calls, Raised("Credentials"))
            ELSE Goto("control") /\ calls' = Append(calls, Returned("Credentials", "credentials"))
    /\ UNCHANGED <<event, instance_id, is_protected, detailed_msg, mgr,
                   evaluations, tokens, scanned, matched, control_status>>

\* lines 56-57
InvalidControl(rp) ==
    \/ "dsControl" \notin DOMAIN rp
    \/ Lower(rp["dsControl"]) \notin CONTROLS

\* lines 56-58
CheckControl ==
    /\ pc = "control"
    /\ IF InvalidControl(ruleParameters)
       THEN Return("requirements_not_met" :> "control")
       ELSE Goto("scope")
    /\ UNCHANGED <<event, instance_id, is_protected, detailed_msg, mgr, calls,
                   evaluations, tokens, scanned, matched, control_status>>

\* event['invokingEvent'], once a dict
invokingEvent == event["invokingEvent"].val

\* IsEC2Instance with the comparison of line 63 left out
IsEC2InstanceAnyType(ci) == "resourceType" \in DOMAIN ci

\* line 63
IsEC2Instance(ci) ==
    /\ "resourceType" \in DOMAIN ci
    /\ Lower(ci["resourceType"]) = Lower(EC2_INSTANCE)

\* lines 61-66: the value instance_id has at line 71
TargetInstance(ie) ==
    IF "configurationItem" \in DOMAIN ie
    THEN LET ci == ie["configurationItem"]
         IN IF IsEC2Instance(ci) /\ "resourceId" \in DOMAIN ci
            THEN ci["resourceId"]
            ELSE None
    ELSE None

\* lines 61-71
ScopeFilter ==
    /\ pc = "scope"
    /\ instance_id' = TargetInstance(invokingEvent)
    /\ IF Truthy(instance_id') THEN Goto("connect") ELSE Goto("report")
    /\ UNCHANGED <<event, is_protected, detailed_msg, mgr, calls,
                   evaluations, tokens, scanned, matched, control_status>>

\* line 76: distutils.util.strtobool; -1 stands for its ValueError
strtobool(val) ==
    IF val \in {"y", "yes", "t", "true", "on", "1"} THEN 1
    ELSE IF val \in {"n", "no", "f", "false", "off", "0"} THEN 0
    ELSE -1

\* Authenticate with mgr.sign_in() called after the try block instead of in it
AuthenticateSignInUncaught ==
    \E o \in {"Manager raises", "sign_in raises", "returns"} :
        /\ calls' = calls \o
             (CASE o = "Manager raises" -> <<Raised("Manager")>>
                [] o = "sign_in raises" -> <<Returned("Manager", "mgr"), Raised("sign_in")>>
                [] o = "returns" -> <<Returned("Manager", "mgr"), Returned("sign_in", "None")>>)
        /\ mgr' = IF o = "Manager raises" THEN "None" ELSE "Manager"
        /\ IF o = "sign_in raises" THEN Raise("sign_in")
           ELSE IF mgr' # "None" THEN Goto("fetch") ELSE Goto("report")

\* lines 77-85: Manager() and mgr.sign_in() inside try/except.  A Manager
\* instance is true, so line 85 asks whether the constructor returned.
Authenticate ==
    \E o \in {"Manager raises", "sign_in raises", "returns"} :
        /\ calls' = calls \o
             (CASE o = "Manager raises" -> <<Raised("Manager")>>
                [] o = "sign_in raises" -> <<Returned("Manager", "mgr"), Raised("sign_in")>>
                [] o = "returns" -> <<Returned("Manager", "mgr"), Returned("sign_in", "None")>>)
        /\ mgr' = IF o = "Manager raises" THEN "None" ELSE "Manager"
        /\ IF mgr' # "None" THEN Goto("fetch") ELSE Goto("report")

\* lines 73-85
Connect ==
    /\ pc = "connect"
    /\ IF /\ "dsIgnoreSslValidation" \in DOMAIN ruleParameters
          /\ strtobool(ruleParameters["dsIgnoreSslValidation"]) = -1
       THEN Raise("strtobool") /\ UNCHANGED <<mgr, calls>>
       ELSE Authenticate
    /\ UNCHANGED <<event, instance_id, is_protected, detailed_msg,
                   evaluations, tokens, scanned, matched, control_status>>

\* line 94
control_key == Lower(ruleParameters["dsControl"])

\* lines 94-97
FetchComputers ==
    /\ pc = "fetch"
    /\ \E o \in {"returns", "raises"} :
         IF o = "raises"
         THEN Raise("computers.get") /\ calls' = Append(calls, Raised("computers.get"))
         ELSE Goto("scan") /\ calls' = Append(calls, Returned("computers.get", "None"))
    /\ UNCHANGED <<event, instance_id, is_protected, detailed_msg, mgr,
                   evaluations, tokens, scanned, matched, control_status>>

\* line 99
MatchesInstance(cloud_id, target) ==
    /\ Truthy(cloud_id)
    /\ Strip(Lower(cloud_id)) = Strip(Lower(target))

\* StatusProtects with the branch of lines 108-111 left out
StatusProtectsWheneverOn(key, status) ==
    IF key \in {anti_malware, integrity_monitoring}
    THEN \/ Contains(Lower(ON_REAL_TIME), Lower(status))
         \/ Contains(Lower(ON_UPDATE_REAL_TIME), Lower(status))
    ELSE Contains(Lower(ON), Lower(status))

\* lines 104-115: whether a matching record's status sets is_protected
StatusProtects(key, status) ==
    IF key \in {anti_malware, integrity_monitoring}
    THEN \/ Contains(Lower(ON_REAL_TIME), Lower(status))
         \/ Contains(Lower(ON_UPDATE_REAL_TIME), Lower(status))
    ELSE IF key \in {intrusion_prevention}
    THEN Contains(Lower(ON_PREVENT), Lower(status))
    ELSE Contains(Lower(ON), Lower(status))

\* lines 98-115: one turn of the loop, on the next record of mgr.computers
ScanHost ==
    /\ pc = "scan"
    /\ scanned < MaxHosts
    /\ \E details \in Hosts :
         IF MatchesInstance(details.cloud_object_instance_id, instance_id)
         THEN /\ matched' = matched + 1
              /\ IF details.status = None
                 THEN /\ Raise("getattr")
                      /\ UNCHANGED <<control_status, detailed_msg, is_protected>>
                 ELSE /\ Goto("scan")
                      /\ control_status' = details.status
                      /\ detailed_msg' = StatusMessage(control_names(control_key), control_status')
                      /\ is_protected' = (is_protected \/ StatusProtects(control_key, control_status'))
         ELSE /\ Goto("scan")
              /\ UNCHANGED <<matched, control_status, detailed_msg, is_protected>>
    /\ scanned' = scanned + 1
    /\ UNCHANGED <<event, instance_id, mgr, calls, evaluations, tokens>>

\* line 117, once mgr.computers.items() has no further record
SignOut ==
    /\ pc = "scan"
    /\ \E o \in {"returns", "raises"} :
         IF o = "raises"
         THEN Raise("sign_out") /\ calls' = Append(calls, Raised("sign_out"))
         ELSE Goto("report") /\ calls' = Append(calls, Returned("sign_out", "None"))
    /\ UNCHANGED <<event, instance_id, is_protected, detailed_msg, mgr,
                   evaluations, tokens, scanned, matched, control_status>>

\* lines 120-123
InitialResult(msg) == IF msg # <<>> THEN "annotation" :> msg ELSE EmptyMap

\* lines 120-126, and lines 156-157 when there is no instance id
Report ==
    /\ pc = "report"
    /\ calls' = Append(calls, Returned("boto3.client", "client"))
    /\ IF Truthy(instance_id)
       THEN /\ result' = InitialResult(detailed_msg)
            /\ pc' = "put"
            /\ UNCHANGED <<outcome, raised>>
       ELSE Return(InitialResult(detailed_msg))
    /\ UNCHANGED <<event, instance_id, is_protected, detailed_msg, mgr,
                   evaluations, tokens, scanned, matched, control_status>>

\* lines 127-129
Compliance(protected) == IF protected THEN "COMPLIANT" ELSE "NON_COMPLIANT"

\* lines 135-143
Evaluation(ci, compliance, msg) ==
    LET evaluation == [ComplianceResourceType |-> ci["resourceType"],
                       ComplianceResourceId |-> ci["resourceId"],
                       ComplianceType |-> compliance,
                       OrderingTimestamp |-> "now"]
    IN IF msg # <<>> THEN evaluation @@ ("Annotation" :> msg) ELSE evaluation

\* ReportedResult with lines 150-151 run after the try block instead of in it
ReportedResultAfterTry(res, o, response) ==
    IF o = "returns"
    THEN ("result" :> "success") @@ ("response" :> response) @@ res
    ELSE ("result" :> "success") @@ ("response" :> "None") @@ res

\* lines 150-154: result after put_evaluations returned `response`, or raised
ReportedResult(res, o, response) ==
    IF o = "returns"
    THEN ("result" :> "success") @@ ("response" :> response) @@ res
    ELSE ("result" :> "failure") @@ res

\* lines 127-157
PutEvaluations ==
    /\ pc = "put"
    /\ evaluations' = Append(evaluations,
            <<Evaluation(invokingEvent["configurationItem"],
                         Compliance(is_protected), detailed_msg)>>)
    /\ tokens' = Append(tokens, event["resultToken"])
    /\ \E o \in {"returns", "raises"}, response \in Responses :
         /\ calls' = Append(calls, IF o = "returns"
                                   THEN Returned("put_evaluations", response)
                                   ELSE Raised("put_evaluations"))
         /\ Return(ReportedResult(result, o, response))
    /\ UNCHANGED <<event, instance_id, is_protected, detailed_msg, mgr,
                   scanned, matched, control_status>>

Next ==
    \/ Validate
    \/ ParseJson
    \/ CheckCredentials
    \/ CheckControl
    \/ ScopeFilter
    \/ Connect
    \/ FetchComputers
    \/ ScanHost
    \/ SignOut
    \/ Report
    \/ PutEvaluations

Spec == Init /\ [][Next]_vars

(***************************************************************************)
(* What the claims speak of                                                *)
(***************************************************************************)
\* positions in `calls` of the calls to a collaborator
CallsTo(name) == {i \in DOMAIN calls : calls[i].call = name}

CallReturned(name) == \E i \in CallsTo(name) : calls[i].ended = "returns"

CallRaised(name) == \E i \in CallsTo(name) : calls[i].ended = "raises"

\* the event has the four required keys
HasRequiredKeys == TopKeys \subseteq DOMAIN event

\* ... and ruleParameters and invokingEvent are mappings (json.loads did not raise)
IsWellFormed ==
    /\ HasRequiredKeys
    /\ event["ruleParameters"].form = "dict"
    /\ event["invokingEvent"].form = "dict"

\* the event got through lines 33-58: the credentials were resolved, dsControl is valid
PassedValidation ==
    /\ IsWellFormed
    /\ CallReturned("Credentials")
    /\ "dsControl" \in DOMAIN ruleParameters
    /\ ruleParameters["dsControl"] # UNKNOWN_CONTROL

\* the event is not about an EC2 instance, or names no resource
IsOutOfScope ==
    \/ "configurationItem" \notin DOMAIN invokingEvent
    \/ "resourceType" \notin DOMAIN invokingEvent["configurationItem"]
    \/ invokingEvent["configurationItem"]["resourceType"]
          \notin {EC2_INSTANCE, EC2_INSTANCE_LOWER_CASE}
    \/ "resourceId" \notin DOMAIN invokingEvent["configurationItem"]

\* the control the rule asks about
RequestedControl ==
    IF ruleParameters["dsControl"] = FIREWALL_MIXED_CASE
    THEN firewall
    ELSE ruleParameters["dsControl"]

\* the documented protection rules, spelled out for StatusValues
ExpectedProtected ==
    ({anti_malware, integrity_monitoring}
        \X {STATUS_REAL_TIME_LOWER_CASE, ON_UPDATE_REAL_TIME})
    \cup ({intrusion_prevention} \X {ON_PREVENT})
    \cup ({web_reputation, firewall, log_inspection}
        \X {ON, STATUS_REAL_TIME_LOWER_CASE, ON_PREVENT, STATUS_DETECT,
            ON_UPDATE_REAL_TIME, STATUS_UPDATE_NO_SPACE})

\* the evaluation put_evaluations was given
Submitted == evaluations[1][1]

\* the status string in an annotation "<control name> status: <status>"
AnnotatedStatus(annotation) ==
    SubSeq(annotation, Len(control_names(RequestedControl)) + 10, Len(annotation))

\* the five documented shapes of the returned mapping
IsDocumentedShape(r) ==
    \/ DOMAIN r = {"result"} /\ r["result"] = "error"
    \/ DOMAIN r = {"requirements_not_met"}
    \/ DOMAIN r \subseteq {"annotation"}
    \/ DOMAIN r \ {"annotation"} = {"result", "response"} /\ r["result"] = "success"
    \/ DOMAIN r \ {"annotation"} = {"result"} /\ r["result"] = "failure"

(***************************************************************************)
(* C1                                                                      *)
(***************************************************************************)
\* C1, as stated: whatever the event and whatever the collaborators do, the
\* handler ends by returning a mapping of one of the five documented shapes
\* and never by raising.
C1_AlwaysReturnsAMapping ==
    pc = "done" => outcome = "returned" /\ IsDocumentedShape(result)

\* C1, amended: when the handler returns, it returns a mapping of one of the
\* five documented shapes; an exception of Manager(), sign_in or
\* put_evaluations never ends it; an exception of the credentials resolver,
\* computers.get or sign_out always does, as do those of json.loads, of the
\* lookup of an absent credential key, of strtobool and of the status
\* attribute lookup.
C1_ReturnsUnlessUncaught ==
    pc = "done" =>
        /\ outcome \in {"returned", "raised"}
        /\ outcome = "returned" => raised = "" /\ IsDocumentedShape(result)
        /\ outcome = "raised" =>
              /\ raised \in {"json.loads", "KeyError", "Credentials", "strtobool",
                             "computers.get", "getattr", "sign_out"}
              /\ raised \in {"Credentials", "computers.get", "sign_out"}
                    => CallRaised(raised)
        /\ \A c \in {"Credentials", "computers.get", "sign_out"} :
              CallRaised(c) => outcome = "raised" /\ raised = c

\* C1: sign_in and put_evaluations both raised and the handler returned
C1_Witness ==
    /\ pc = "done"
    /\ CallRaised("sign_in")
    /\ CallRaised("put_evaluations")
    /\ outcome = "returned"
    /\ IsDocumentedShape(result)

(***************************************************************************)
(* C2                                                                      *)
(***************************************************************************)
\* C2: on an event that lacks one of invokingEvent, ruleParameters,
\* resultToken, eventLeftScope the handler makes no call to any collaborator
\* and returns exactly {result: "error"}.
C2_MissingKeyIsAnError ==
    ~ HasRequiredKeys =>
        /\ calls = <<>>
        /\ evaluations = <<>>
        /\ pc \in {"validate", "done"}
        /\ pc = "done" =>
              /\ outcome = "returned"
              /\ DOMAIN result = {"result"}
              /\ result["result"] = "error"

\* C2: an event that lacks only eventLeftScope was answered {result: "error"}
C2_Witness ==
    /\ pc = "done"
    /\ DOMAIN event = TopKeys \ {"eventLeftScope"}
    /\ outcome = "returned"
    /\ result = ("result" :> "error")

(***************************************************************************)
(* C3                                                                      *)
(***************************************************************************)
\* C3, as stated: on an event with the four required keys whose
\* ruleParameters lacks dsUsernameKey or dsPasswordKey, the handler returns a
\* mapping with the key requirements_not_met, having called no collaborator.
C3_MissingCredentialKeyIsRejected ==
    (/\ pc = "done"
     /\ IsWellFormed
     /\ ~ ({"dsUsernameKey", "dsPasswordKey"} \subseteq DOMAIN ruleParameters))
    => /\ outcome = "returned"
       /\ "requirements_not_met" \in DOMAIN result
       /\ calls = <<>>

(***************************************************************************)
(* C4                                                                      *)
(***************************************************************************)
\* C4: on an event that passes validation and whose resourceType is not the
\* EC2 instance type in any case, or whose configurationItem has no
\* resourceId, the handler constructs no Manager, never signs in, never calls
\* put_evaluations, and returns a mapping without the key result.
C4_OutOfScopeIsNotEvaluated ==
    (PassedValidation /\ IsOutOfScope) =>
        /\ CallsTo("Manager") = {}
        /\ CallsTo("sign_in") = {}
        /\ CallsTo("put_evaluations") = {}
        /\ evaluations = <<>>
        /\ pc = "done" => outcome = "returned" /\ "result" \notin DOMAIN result

\* C4: an event about an S3 bucket that has a resourceId was answered {}
C4_Witness ==
    /\ pc = "done"
    /\ PassedValidation
    /\ "configurationItem" \in DOMAIN invokingEvent
    /\ DOMAIN invokingEvent["configurationItem"] = ItemKeys
    /\ invokingEvent["configurationItem"]["resourceType"] = S3_BUCKET
    /\ Truthy(invokingEvent["configurationItem"]["resourceId"])
    /\ outcome = "returned"
    /\ result = EmptyMap

(***************************************************************************)
(* C5                                                                      *)
(***************************************************************************)
\* C5: when exactly one record matched the instance id, the ComplianceType
\* given to put_evaluations is COMPLIANT if that record's status satisfies
\* the rule of the requested control, and NON_COMPLIANT if it does not.
C5_VerdictFollowsTheStatus ==
    (pc = "done" /\ matched = 1 /\ Len(evaluations) = 1) =>
        Submitted["ComplianceType"] =
            IF <<RequestedControl, control_status>> \in ExpectedProtected
            THEN "COMPLIANT"
            ELSE "NON_COMPLIANT"

\* C5: intrusion_prevention with the one matching record "On, Prevent" was
\* reported COMPLIANT
C5_Witness ==
    /\ pc = "done"
    /\ matched = 1
    /\ Len(evaluations) = 1
    /\ RequestedControl = intrusion_prevention
    /\ control_status = ON_PREVENT
    /\ Submitted["ComplianceType"] = "COMPLIANT"

(***************************************************************************)
(* C6                                                                      *)
(***************************************************************************)
\* C6: once the reporter is reached with an instance id, put_evaluations is
\* called exactly once, with the event's resultToken; the handler returns;
\* result is "success" and response what the call returned if it returned;
\* result is "failure" and there is no response if it raised.
C6_ReportsTheSubmission ==
    (pc = "done" /\ CallReturned("boto3.client") /\ Truthy(instance_id)) =>
        /\ Cardinality(CallsTo("put_evaluations")) = 1
        /\ Len(evaluations) = 1
        /\ tokens = <<event["resultToken"]>>
        /\ outcome = "returned"
        /\ "result" \in DOMAIN result
        /\ LET put == calls[Len(calls)]
           IN /\ put.call = "put_evaluations"
              /\ put.ended = "returns" <=> result["result"] = "success"
              /\ put.ended = "raises" <=> result["result"] = "failure"
              /\ put.ended = "returns" =>
                    "response" \in DOMAIN result /\ result["response"] = put.value
              /\ put.ended = "raises" => "response" \notin DOMAIN result

\* C6: put_evaluations raised and the handler returned result "failure"
C6_Witness ==
    /\ pc = "done"
    /\ CallRaised("put_evaluations")
    /\ outcome = "returned"
    /\ result["result"] = "failure"

(***************************************************************************)
(* C7                                                                      *)
(***************************************************************************)
\* C7, as stated: when sign_in raises, the handler still reaches the
\* reporter and submits NON_COMPLIANT for the resource id, whatever the
\* inventory holds.
C7_FailedSignInIsNonCompliant ==
    (pc = "done" /\ CallRaised("sign_in")) =>
        /\ outcome = "returned"
        /\ Len(evaluations) = 1
        /\ Submitted["ComplianceType"] = "NON_COMPLIANT"
        /\ Submitted["ComplianceResourceId"]
              = invokingEvent["configurationItem"]["resourceId"]

(***************************************************************************)
(* C8                                                                      *)
(***************************************************************************)
\* C8, as stated: after Manager() or sign_in raised, computers.get is not
\* called, no record is scanned and sign_out is not called.
C8_NoSessionStepAfterFailedSignIn ==
    (CallRaised("Manager") \/ CallRaised("sign_in")) =>
        /\ CallsTo("computers.get") = {}
        /\ CallsTo("sign_out") = {}
        /\ scanned = 0

(***************************************************************************)
(* C9                                                                      *)
(***************************************************************************)
\* C9, as stated: in every invocation in which sign_in returned, sign_out has
\* been called exactly once when the handler ends, and before
\* put_evaluations.
C9_SignOutOnEveryPath ==
    (pc = "done" /\ CallReturned("sign_in")) =>
        /\ Cardinality(CallsTo("sign_out")) = 1
        /\ \A i \in CallsTo("sign_out"), j \in CallsTo("put_evaluations") : i < j

(***************************************************************************)
(* C10                                                                     *)
(***************************************************************************)
\* C10, as stated: the verdict and the annotation submitted describe the
\* same status: COMPLIANT only with an annotation whose status satisfies the
\* rule of the requested control, and always COMPLIANT with such an
\* annotation.
C10_VerdictAgreesWithAnnotation ==
    (pc = "done" /\ Len(evaluations) = 1) =>
        LET annotated == "Annotation" \in DOMAIN Submitted
            satisfied ==
                /\ annotated
                /\ <<RequestedControl, AnnotatedStatus(Submitted["Annotation"])>>
                      \in ExpectedProtected
        IN Submitted["ComplianceType"] = "COMPLIANT" <=> satisfied
====
